---- MODULE Spec2Model ----
(***************************************************************************)
(* mkpdfs.py: one PDF per directory of images.                             *)
(*                                                                         *)
(* A file name is a sequence of one-character strings, a path is the       *)
(* sequence of its names below the anchor "/".  The file system is the     *)
(* listing of every directory, the modification time of every file and the *)
(* content of every artifact path.  Time is a clock that ticks on its own. *)
(***************************************************************************)
EXTENDS Integers, Sequences, FiniteSets, TLC

\* ------------------------------------------------------------------ bounds
\* The clock shows the times 1..MaxClock.
MaxClock == 2
\* main() is run at most MaxRuns times in one behaviour.
MaxRuns == 2
\* At most MaxTouch images are touched by the environment in one behaviour.
MaxTouch == 1
\* In at most MaxFaults calls of process_directory does Pillow or img2pdf
\* raise, in one behaviour.
MaxFaults == 1

\* ---------------------------------------------------------- characters
\* The characters that occur, in code-point order (Python compares str by
\* code point).
Alphabet ==
    << ".", "0", "1", "2", "3", "4", "5", "6", "7", "8", "9",
       "A", "B", "C", "D", "E", "F", "G", "H", "I", "J", "K", "L", "M",
       "N", "O", "P", "Q", "R", "S", "T", "U", "V", "W", "X", "Y", "Z",
       "_",
       "a", "b", "c", "d", "e", "f", "g", "h", "i", "j", "k", "l", "m",
       "n", "o", "p", "q", "r", "s", "t", "u", "v", "w", "x", "y", "z" >>

\* ord(c), up to a shift: the place of c in the alphabet.
OrdTable ==
    [c \in { Alphabet[i] : i \in 1..Len(Alphabet) } |->
        CHOOSE i \in 1..Len(Alphabet) : Alphabet[i] = c]

Ord(c) == OrdTable[c]

\* str.lower() on one character.
LowerChar(c) ==
    IF Ord(c) >= Ord("A") /\ Ord(c) <= Ord("Z")
    THEN Alphabet[Ord(c) - Ord("A") + Ord("a")]
    ELSE c

\* str.lower()
Lower(s) == [i \in 1..Len(s) |-> LowerChar(s[i])]

\* s < t for two str, as Python compares them.
RECURSIVE StrLess(_, _)
StrLess(s, t) ==
    IF t = <<>> THEN FALSE
    ELSE IF s = <<>> THEN TRUE
    ELSE IF s[1] # t[1] THEN Ord(s[1]) < Ord(t[1])
    ELSE StrLess(Tail(s), Tail(t))

\* ---------------------------------------------------------------- names
n_photos == << "p", "h", "o", "t", "o", "s" >>
n_pdfs == << "p", "d", "f", "s" >>
n_2020 == << "2", "0", "2", "0" >>
n_trip == << "t", "r", "i", "p" >>
n_2020_trip == << "2", "0", "2", "0", "_", "t", "r", "i", "p" >>
f_a_jpg == << "a", ".", "j", "p", "g" >>
f_b_png == << "b", ".", "p", "n", "g" >>
f_c_gif == << "c", ".", "g", "i", "f" >>
f_B_JPG == << "B", ".", "J", "P", "G" >>
f_n_txt == << "n", ".", "t", "x", "t" >>

\* No path: Config.out_root when the second argument is omitted.
None == << << "None" >> >>

IMAGE_EXTENSIONS ==
    { << ".", "j", "p", "g" >>, << ".", "j", "p", "e", "g" >>,
      << ".", "p", "n", "g" >>, << ".", "g", "i", "f" >>,
      << ".", "b", "m", "p" >>, << ".", "t", "i", "f" >>,
      << ".", "t", "i", "f", "f" >>, << ".", "w", "e", "b", "p" >>,
      << ".", "h", "e", "i", "c" >>, << ".", "h", "e", "i", "f" >> }

\* ------------------------------------------------------------ the tree
\* /photos, /photos/2020, /photos/2020/trip, /photos/2020_trip
RootDir == << n_photos >>
OutRootDir == << n_pdfs >>
Dir2020 == << n_photos, n_2020 >>
DirTrip == << n_photos, n_2020, n_trip >>
DirFlat == << n_photos, n_2020_trip >>
Dirs == { RootDir, Dir2020, DirTrip, DirFlat }

\* The trees main() is run on: every directory's listing in the order the
\* file system gives it (not sorted), files and subdirectories.  In the first
\* the root holds no image and 2020/trip and 2020_trip do; in the second the
\* root holds one, above 2020/trip, and 2020_trip is empty.
Layouts ==
    { [d \in Dirs |->
          IF d = RootDir THEN << f_n_txt, n_2020_trip, n_2020 >>
          ELSE IF d = Dir2020 THEN << f_n_txt, n_trip >>
          ELSE IF d = DirTrip THEN << f_b_png, f_a_jpg, f_c_gif >>
          ELSE << f_a_jpg >>],
      [d \in Dirs |->
          IF d = RootDir THEN << n_2020_trip, f_a_jpg, n_2020 >>
          ELSE IF d = Dir2020 THEN << f_n_txt, n_trip >>
          ELSE IF d = DirTrip THEN << f_a_jpg, f_B_JPG >>
          ELSE << >>] }

\* --------------------------------------------------------------- paths
\* Path.name
PathName(p) == IF p = <<>> THEN <<>> ELSE p[Len(p)]

\* Path.parent
PathParent(p) == IF p = <<>> THEN <<>> ELSE SubSeq(p, 1, Len(p) - 1)

\* str.rfind("."): the last index of ".", 0 when there is none (Python's -1,
\* shifted by the 1-based indexing).
RFindDot(s) ==
    LET dots == { i \in 1..Len(s) : s[i] = "." }
    IN  IF dots = {} THEN 0 ELSE CHOOSE i \in dots : \A j \in dots : j <= i

\* Path.suffix: from the last "." of the name, unless the name starts or
\* ends with it.
Suffix(name) ==
    LET i == RFindDot(name)
    IN  IF 1 < i /\ i < Len(name) THEN SubSeq(name, i, Len(name)) ELSE <<>>

\* "_".join(parts)
RECURSIVE Join(_)
Join(parts) ==
    IF parts = <<>> THEN <<>>
    ELSE IF Len(parts) = 1 THEN parts[1]
    ELSE parts[1] \o << "_" >> \o Join(Tail(parts))

\* Path.relative_to raises ValueError unless base is a prefix of p.
IsRelativeTo(p, base) ==
    Len(base) <= Len(p) /\ SubSeq(p, 1, Len(base)) = base

RelativeTo(p, base) == SubSeq(p, Len(base) + 1, Len(p))

\* The artifact named with the extension of its pages.
DotPdf_jpg == << ".", "j", "p", "g" >>

DotPdf == << ".", "p", "d", "f" >>

\* Path.resolve(): the paths of the model are absolute, without symbolic
\* links or dots, and resolve to themselves.
Resolve(p) == p

\* cfg.root.name or cfg.root.resolve().name
RootName(cfg) ==
    IF PathName(cfg.root) # <<>> THEN PathName(cfg.root)
    ELSE PathName(Resolve(cfg.root))

NonEmpty(part) == part # <<>>

\* resolve_outfile naming the artifact after the directory alone when an
\* output root is configured.
resolve_outfile_basename(directory, cfg) ==
    IF cfg.out_root # None
    THEN Append(cfg.out_root, PathName(directory) \o DotPdf)
    ELSE Append(directory, PathName(directory) \o DotPdf)

resolve_outfile(directory, cfg) ==
    IF cfg.out_root # None THEN
        LET rel_parts ==
                IF IsRelativeTo(directory, cfg.root) THEN
                    LET rel == RelativeTo(directory, cfg.root)
                    IN  IF rel = <<>> THEN << RootName(cfg) >> ELSE rel
                ELSE << PathName(directory) >>
            name == Join(SelectSeq(rel_parts, NonEmpty))
        IN  Append(cfg.out_root,
                   (IF name # <<>> THEN name ELSE PathName(directory)) \o DotPdf)
    ELSE
        LET base0 == PathName(directory)
            \* "directory == directory.anchor" compares a Path with a str and
            \* is False for every directory
            base1 == IF base0 = <<>> \/ FALSE THEN RootName(cfg) ELSE base0
            base2 == IF base1 \in { << "." >>, << "/" >> }
                     THEN RootName(cfg) ELSE base1
        IN  Append(directory, base2 \o DotPdf)

\* ------------------------------------------------------ sorting, walking
\* list < list in Python: the first differing part decides, a proper prefix
\* is smaller.  Path.__lt__ compares the lists of parts.
RECURSIVE PathLess(_, _)
PathLess(p, q) ==
    IF q = <<>> THEN FALSE
    ELSE IF p = <<>> THEN TRUE
    ELSE IF p[1] # q[1] THEN StrLess(p[1], q[1])
    ELSE PathLess(Tail(p), Tail(q))

\* sorted(directory.iterdir()): insertion sort of a sequence of paths.
RECURSIVE InsertPath(_, _)
InsertPath(x, s) ==
    IF s = <<>> THEN << x >>
    ELSE IF PathLess(x, s[1]) THEN << x >> \o s
    ELSE << s[1] >> \o InsertPath(x, Tail(s))

RECURSIVE SortedPaths(_)
SortedPaths(s) ==
    IF s = <<>> THEN <<>> ELSE InsertPath(s[1], SortedPaths(Tail(s)))

\* dirnames.sort(): insertion sort of a sequence of str.
RECURSIVE InsertName(_, _)
InsertName(x, s) ==
    IF s = <<>> THEN << x >>
    ELSE IF StrLess(x, s[1]) THEN << x >> \o s
    ELSE << s[1] >> \o InsertName(x, Tail(s))

RECURSIVE SortedNames(_)
SortedNames(s) ==
    IF s = <<>> THEN <<>> ELSE InsertName(s[1], SortedNames(Tail(s)))

\* Path.iterdir(): the entries of a directory, in the file system's order.
IterDir(fs, directory) ==
    [i \in 1..Len(fs[directory]) |-> Append(directory, fs[directory][i])]

\* Path.is_file(): every entry of the tree that is not a directory is a
\* regular file.
IsFile(entry) == entry \notin Dirs

IsImage(entry) ==
    IsFile(entry) /\ Lower(Suffix(PathName(entry))) \in IMAGE_EXTENSIONS

\* find_images without sorted().
find_images_unsorted(fs, directory) ==
    SelectSeq(IterDir(fs, directory), IsImage)

\* find_images without the test of the extension.
find_images_any_file(fs, directory) ==
    SelectSeq(SortedPaths(IterDir(fs, directory)), IsFile)

find_images(fs, directory) ==
    SelectSeq(SortedPaths(IterDir(fs, directory)), IsImage)

\* The dirnames os.walk hands out for a directory, in the file system's
\* order.
DirNames(fs, directory) ==
    LET IsDirName(n) == Append(directory, n) \in Dirs
    IN  SelectSeq(fs[directory], IsDirName)

\* os.walk, top down, with dirnames sorted in place before the descent.
RECURSIVE iter_dirs(_, _)
RECURSIVE WalkEach(_, _, _)
WalkEach(fs, directory, dirnames) ==
    IF dirnames = <<>> THEN <<>>
    ELSE iter_dirs(fs, Append(directory, dirnames[1]))
             \o WalkEach(fs, directory, Tail(dirnames))

\* os.walk without "dirnames.sort()": the file system's order.
iter_dirs_unsorted(fs, root) ==
    << root >> \o WalkEach(fs, root, DirNames(fs, root))

iter_dirs(fs, root) ==
    << root >> \o WalkEach(fs, root, SortedNames(DirNames(fs, root)))

\* ------------------------------------------------------------- images
\* Image.mode of a source image once decoded.
SourceMode(entry) ==
    IF PathName(entry) = f_a_jpg THEN "RGB"
    ELSE IF PathName(entry) = f_b_png THEN "RGBA"
    ELSE IF PathName(entry) = f_c_gif THEN "P"
    ELSE "L"

\* The mode prepare_page saves a page in.
PageMode(mode) ==
    IF mode \notin { "RGB", "L" } THEN "RGB"
    ELSE IF mode # "RGB" THEN "RGB"
    ELSE mode

\* str(n) for n >= 0
RECURSIVE Digits(_)
Digits(n) ==
    IF n < 10 THEN << Alphabet[Ord("0") + n] >>
    ELSE Digits(n \div 10) \o << Alphabet[Ord("0") + (n % 10)] >>

\* f"{index:05d}": zero-padded on the left to five characters at least.
RECURSIVE ZeroPad(_, _)
ZeroPad(s, width) == IF Len(s) >= width THEN s ELSE ZeroPad(<< "0" >> \o s, width)

\* tmpdir / f"{index:05d}.jpg", as the name inside the staging area
PageName(index) == ZeroPad(Digits(index), 5) \o << ".", "j", "p", "g" >>

\* ------------------------------------------------------------- state
VARIABLES
    cfg,        \* Config(root, out_root)
    img2pdf,    \* whether "import img2pdf" succeeded
    fs,         \* directory -> its listing, in the file system's order
    mtime,      \* file -> st_mtime
    now,        \* the time the clock showed when it was last read
    fsdirs,     \* the directories that exist
    artifact,   \* artifact path -> the file there
    tmpdir,     \* the staging area of the directory being processed
    pc,         \* where main() is
    run,        \* how many times main() was started
    todo,       \* what iter_dirs has yet to yield
    directory,  \* process_directory's directory
    images,     \* process_directory's images
    outfile,    \* process_directory's outfile
    processed,  \* process_directory's processed
    outcome,    \* directory -> how its step of this run ended
    prev,       \* directory -> how its step of the run before ended
    touched,    \* images touched since their directory's artifact was written
    touches,    \* how many images the environment has touched
    calls,      \* what process_directory has called for its directory
    faults,     \* in how many calls of process_directory a library raised
    tried,      \* what write_pdf_from_images tried for the directory, in order
    exit_status \* what main() returned, -1 while it has not returned

vars ==
    << cfg, img2pdf, fs, mtime, now, fsdirs, artifact, tmpdir, pc,
       run, todo, directory, images, outfile, processed, outcome, prev,
       touched, touches, calls, faults, tried, exit_status >>

\* A time later than every time the clock shows.
FutureTime == MaxClock + 1

Cfgs ==
    { [root |-> RootDir, out_root |-> None],
      [root |-> RootDir, out_root |-> OutRootDir] }

ArtifactPaths == { resolve_outfile(d, c) : d \in Dirs, c \in Cfgs }

\* The regular files of a file system.
Files(f) ==
    UNION { { Append(d, f[d][i]) : i \in 1..Len(f[d]) } : d \in Dirs } \ Dirs

ImageFiles(f) == { e \in Files(f) : IsImage(e) }

\* No file at a path.
NoFile == [exists |-> FALSE, pages |-> <<>>, mtime |-> 0, complete |-> FALSE]

\* A complete PDF that keeps the time 0 instead of the time it is written.
Pdf_epoch(pages, t) ==
    [exists |-> TRUE, pages |-> pages, mtime |-> 0, complete |-> TRUE]

\* A complete PDF of the pages, written at time t.
Pdf(pages, t) ==
    [exists |-> TRUE, pages |-> pages, mtime |-> t, complete |-> TRUE]

\* What open(outfile, "wb") leaves when nothing is written after it, and
\* what a save that raises half way leaves: a file that is no PDF.
Truncated(t) ==
    [exists |-> TRUE, pages |-> <<>>, mtime |-> t, complete |-> FALSE]

\* No staging area.
NoTmp == [exists |-> FALSE, files |-> {}]

\* The page stored under a name of the staging area.
PageAt(tmp, name) == (CHOOSE f \in tmp.files : f.name = name).page

\* Image.save(tmp_path): the file replaces what the name held.
SavePage(tmp, name, page) ==
    [tmp EXCEPT !.files =
        { f \in @ : f.name # name } \cup { [name |-> name, page |-> page] }]

NoOutcome == [d \in Dirs |-> "pending"]

Init ==
    /\ cfg \in Cfgs
    /\ img2pdf \in BOOLEAN
    /\ fs \in Layouts
    /\ mtime \in [Files(fs) -> { 0, MaxClock, FutureTime }]
    /\ Cardinality({ f \in Files(fs) : mtime[f] # 0 }) <= 1
    /\ \A f \in Files(fs) : mtime[f] # 0 => f = Append(DirTrip, f_a_jpg)
    /\ now = 1
    /\ fsdirs = Dirs
    /\ artifact = [p \in ArtifactPaths |-> NoFile]
    /\ tmpdir = NoTmp
    /\ pc = "idle"
    /\ run = 0
    /\ todo = <<>>
    /\ directory = <<>>
    /\ images = <<>>
    /\ outfile = <<>>
    /\ processed = <<>>
    /\ outcome = NoOutcome
    /\ prev = NoOutcome
    /\ touched = {}
    /\ touches = 0
    /\ calls = {}
    /\ faults = 0
    /\ tried = <<>>
    /\ exit_status = -1

\* ------------------------------------------------------------ oracle
\* max(img.stat().st_mtime for img in images)
NewestMtime(imgs, mt) ==
    CHOOSE t \in { mt[imgs[i]] : i \in 1..Len(imgs) } :
        \A i \in 1..Len(imgs) : mt[imgs[i]] <= t

\* is_up_to_date with the comparison turned round.
is_up_to_date_reversed(imgs, out, art, mt) ==
    IF ~art[out].exists THEN FALSE
    ELSE NewestMtime(imgs, mt) >= art[out].mtime

\* is_up_to_date looking at the first image only.
is_up_to_date_first_image(imgs, out, art, mt) ==
    IF ~art[out].exists THEN FALSE
    ELSE art[out].mtime >= mt[imgs[1]]

\* is_up_to_date with a strict comparison.
is_up_to_date_strict(imgs, out, art, mt) ==
    IF ~art[out].exists THEN FALSE
    ELSE art[out].mtime > NewestMtime(imgs, mt)

is_up_to_date(imgs, out, art, mt) ==
    IF ~art[out].exists THEN FALSE
    ELSE art[out].mtime >= NewestMtime(imgs, mt)

\* Path.mkdir(parents=True, exist_ok=True)
Mkdir(dirs, p) == dirs \cup { SubSeq(p, 1, k) : k \in 1..Len(p) }

\* ---------------------------------------------------------- assembler
\* How the two strategies may end for one call.  The primary strategy can
\* raise in open(outfile, "wb") or after it, in img2pdf.convert or fp.write;
\* the fallback can raise before head.save opens the file or inside it.
FallbackOutcomes == { "ok", "open_raises", "save_raises" }

\* Whether a strategy raises in an attempt.
Raises(att) ==
    \/ att.primary \in { "open_raises", "convert_raises" }
    \/ att.fallback \in { "open_raises", "save_raises" }

Attempts(avail) ==
    IF avail THEN
        { [primary |-> "ok", fallback |-> "unused"] }
            \cup { [primary |-> p, fallback |-> f] :
                     p \in { "open_raises", "convert_raises" },
                     f \in FallbackOutcomes }
    ELSE { [primary |-> "unavailable", fallback |-> f] : f \in FallbackOutcomes }

\* img2pdf.convert([str(path) for path in processed_images]): one page per
\* path, in the order of the list.
PrimaryPages(tmp, paths) ==
    [i \in 1..Len(paths) |-> PageAt(tmp, paths[i])]

\* The fallback with append_images=images: the head is saved twice.
FallbackPages_head_twice(tmp, paths) ==
    LET opened == [i \in 1..Len(paths) |->
                      [PageAt(tmp, paths[i]) EXCEPT !.mode = "RGB"]]
    IN  << Head(opened) >> \o opened

\* Image.open(path).convert("RGB") for every path, then
\* head.save(outfile, save_all=True, append_images=tail)
FallbackPages(tmp, paths) ==
    LET opened == [i \in 1..Len(paths) |->
                      [PageAt(tmp, paths[i]) EXCEPT !.mode = "RGB"]]
        head == Head(opened)
        tail == Tail(opened)
    IN  << head >> \o tail

\* The fallback strategy on the artifacts the primary strategy left.  When
\* head.save raises after opening the file, Pillow removes the file if save
\* created it and leaves it cut short if it was there before.
Fallback(paths, out, art, tmp, t, att) ==
    IF att.fallback = "ok" THEN
        [artifact |-> [art EXCEPT ![out] = Pdf(FallbackPages(tmp, paths), t)],
         raised |-> FALSE]
    ELSE IF att.fallback = "open_raises" \/ ~art[out].exists THEN
        [artifact |-> art, raised |-> TRUE]
    ELSE
        [artifact |-> [art EXCEPT ![out] = Truncated(t)], raised |-> TRUE]

\* The primary strategy: what "with open(outfile, "wb") as fp:
\* fp.write(img2pdf.convert(...))" leaves and whether it returned.
Primary(paths, out, art, tmp, t, att) ==
    IF att.primary = "ok" THEN
        [artifact |-> [art EXCEPT ![out] = Pdf(PrimaryPages(tmp, paths), t)],
         raised |-> FALSE]
    ELSE IF att.primary = "open_raises" THEN
        [artifact |-> art, raised |-> TRUE]
    ELSE
        [artifact |-> [art EXCEPT ![out] = Truncated(t)], raised |-> TRUE]

\* write_pdf_from_images without the fallback after a failure of the primary
\* strategy.
write_pdf_from_images_no_fallback(paths, out, art, tmp, t, avail, att) ==
    IF paths = <<>> THEN [artifact |-> art, raised |-> FALSE, tried |-> <<>>]
    ELSE IF avail THEN
        LET first == Primary(paths, out, art, tmp, t, att)
        IN  [artifact |-> first.artifact, raised |-> first.raised,
             tried |-> IF first.raised THEN << "img2pdf", "img2pdf_raised" >>
                       ELSE << "img2pdf" >>]
    ELSE
        LET second == Fallback(paths, out, art, tmp, t, att)
        IN  [artifact |-> second.artifact, raised |-> second.raised,
             tried |-> IF second.raised THEN << "Pillow", "Pillow_raised" >>
                       ELSE << "Pillow" >>]

\* The artifacts write_pdf_from_images leaves, whether it raised and, in
\* their order, the strategies it tried and the ones that raised.
write_pdf_from_images(paths, out, art, tmp, t, avail, att) ==
    IF paths = <<>> THEN [artifact |-> art, raised |-> FALSE, tried |-> <<>>]
    ELSE IF avail THEN
        LET first == Primary(paths, out, art, tmp, t, att)
        IN  IF ~first.raised THEN
                [artifact |-> first.artifact, raised |-> FALSE,
                 tried |-> << "img2pdf" >>]
            ELSE
                LET second == Fallback(paths, out, first.artifact, tmp, t, att)
                IN  [artifact |-> second.artifact, raised |-> second.raised,
                     tried |-> << "img2pdf", "img2pdf_raised", "Pillow" >>
                        \o IF second.raised THEN << "Pillow_raised" >>
                           ELSE <<>>]
    ELSE
        LET second == Fallback(paths, out, art, tmp, t, att)
        IN  [artifact |-> second.artifact, raised |-> second.raised,
             tried |-> << "Pillow" >>
                \o IF second.raised THEN << "Pillow_raised" >> ELSE <<>>]

\* ------------------------------------------------------------- walker
\* The exception ending the loop instead.
AfterException_abort(rest) == <<>>

\* main's "except Exception": the error is logged and the loop goes on with
\* what iter_dirs has yet to yield.
AfterException(rest) == rest

\* The images of a directory, as a set.
ImagesOf(d) ==
    { e \in { Append(d, fs[d][i]) : i \in 1..Len(fs[d]) } : IsImage(e) }

\* A staging area that stays behind when the block is left.
ExitContext_leak(tmp) == tmp

\* The end of "with tempfile.TemporaryDirectory(...)", reached by return and
\* by exception alike: the staging area and the files in it are removed.
ExitContext(tmp) == NoTmp

\* main, up to the loop: the output root is created, the walk begins.
Main ==
    /\ pc \in { "idle", "exit" }
    /\ run < MaxRuns
    /\ run' = run + 1
    /\ fsdirs' = IF cfg.out_root # None THEN Mkdir(fsdirs, cfg.out_root)
                 ELSE fsdirs
    /\ todo' = iter_dirs(fs, cfg.root)
    /\ prev' = outcome
    /\ outcome' = NoOutcome
    /\ pc' = "walk"
    /\ exit_status' = -1
    /\ UNCHANGED << cfg, img2pdf, fs, mtime, now, artifact, tmpdir,
                    directory, images, outfile, processed, touched, touches,
                    calls, faults, tried >>

\* The loop takes the next directory and process_directory runs up to the
\* staging area: classification, target, freshness.
ProcessDirectory ==
    /\ pc = "walk"
    /\ todo # <<>>
    /\ LET d == Head(todo)
           imgs == find_images(fs, d)
           out == resolve_outfile(d, cfg)
       IN  /\ directory' = d
           /\ todo' = Tail(todo)
           /\ images' = imgs
           /\ processed' = <<>>
           /\ tried' = <<>>
           /\ touched' = touched \ ImagesOf(d)
           /\ IF imgs = <<>> THEN
                  /\ outcome' = [outcome EXCEPT ![d] = "empty"]
                  /\ calls' = { "find_images" }
                  /\ pc' = "walk"
                  /\ outfile' = <<>>
                  /\ UNCHANGED << fsdirs, tmpdir >>
              ELSE
                  /\ outfile' = out
                  /\ fsdirs' = Mkdir(fsdirs, PathParent(out))
                  /\ IF is_up_to_date(imgs, out, artifact, mtime) THEN
                         /\ outcome' = [outcome EXCEPT ![d] = "skip"]
                         /\ calls' = { "find_images", "resolve_outfile",
                                       "mkdir", "is_up_to_date" }
                         /\ pc' = "walk"
                         /\ UNCHANGED tmpdir
                     ELSE
                         /\ outcome' = [outcome EXCEPT ![d] = "stale"]
                         /\ calls' = { "find_images", "resolve_outfile",
                                       "mkdir", "is_up_to_date",
                                       "TemporaryDirectory" }
                         /\ tmpdir' = [exists |-> TRUE, files |-> {}]
                         /\ pc' = "prepare"
    /\ UNCHANGED << cfg, img2pdf, fs, mtime, now, artifact, run,
                    prev, touches, faults, exit_status >>

\* prepare_page(source, tmpdir, index): the page is saved under the name of
\* its index and the path is returned.
prepare_page(source, tmp, index) ==
    [tmpdir |-> SavePage(tmp, PageName(index),
                         [src |-> source, mode |-> PageMode(SourceMode(source))]),
     tmp_path |-> PageName(index)]

\* The loop leaving after its first image.
PrepareLoop_first_only(imgs, tmp, k) ==
    IF k = 0 THEN [tmpdir |-> tmp, processed |-> <<>>]
    ELSE LET page == prepare_page(imgs[1], tmp, 0)
         IN  [tmpdir |-> page.tmpdir, processed |-> << page.tmp_path >>]

\* "for idx, image in enumerate(images): processed.append(prepare_page(...))"
\* over the first k images: the staging area and the list it leaves.
RECURSIVE PrepareLoop(_, _, _)
PrepareLoop(imgs, tmp, k) ==
    IF k = 0 THEN [tmpdir |-> tmp, processed |-> <<>>]
    ELSE LET before == PrepareLoop(imgs, tmp, k - 1)
             page == prepare_page(imgs[k], before.tmpdir, k - 1)
         IN  [tmpdir |-> page.tmpdir,
              processed |-> Append(before.processed, page.tmp_path)]

\* The loop over the images.  Pillow may fail to identify any one of them:
\* UnidentifiedImageError becomes a RuntimeError, which leaves the with block
\* (the staging area is removed) and reaches main.
PreparePages ==
    /\ pc = "prepare"
    /\ \/ /\ LET done == PrepareLoop(images, tmpdir, Len(images))
             IN  /\ tmpdir' = done.tmpdir
                 /\ processed' = done.processed
          /\ pc' = "assemble"
          /\ UNCHANGED << outcome, todo, faults >>
       \/ /\ \E failing \in 1..Len(images) :
                 PrepareLoop(images, tmpdir, failing - 1).tmpdir.exists
          /\ faults < MaxFaults
          /\ faults' = faults + 1
          /\ tmpdir' = ExitContext(tmpdir)
          /\ processed' = <<>>
          /\ outcome' = [outcome EXCEPT ![directory] = "failed"]
          /\ todo' = AfterException(todo)
          /\ pc' = "walk"
    /\ calls' = calls \cup { "prepare_page" }
    /\ UNCHANGED << cfg, img2pdf, fs, mtime, now, fsdirs, artifact,
                    run, directory, images, outfile, prev, touched, touches,
                    tried, exit_status >>

\* write_pdf_from_images, then the end of the with block.  The files it
\* writes get the time of the clock, which has not gone back since it was
\* last read.
WritePdf ==
    /\ pc = "assemble"
    /\ \E att \in Attempts(img2pdf), t \in now..MaxClock :
         LET r == write_pdf_from_images(processed, outfile, artifact, tmpdir,
                                        t, img2pdf, att)
         IN  /\ now' = t
             /\ Raises(att) => faults < MaxFaults
             /\ faults' = IF Raises(att) THEN faults + 1 ELSE faults
             /\ artifact' = r.artifact
             /\ outcome' = [outcome EXCEPT ![directory] =
                               IF r.raised THEN "failed" ELSE "built"]
             /\ todo' = IF r.raised THEN AfterException(todo) ELSE todo
             /\ touched' = IF r.artifact = artifact THEN touched
                           ELSE touched \ ImagesOf(directory)
             /\ tried' = r.tried
             /\ calls' = calls \cup { "write_pdf_from_images" }
                             \cup { r.tried[i] : i \in 1..Len(r.tried) }
    /\ tmpdir' = ExitContext(tmpdir)
    /\ pc' = "walk"
    /\ UNCHANGED << cfg, img2pdf, fs, mtime, fsdirs, run,
                    directory, images, outfile, processed, prev, touches,
                    exit_status >>

\* A return value that reports the directories that failed.
ExitStatus_escalate(out) ==
    IF \E d \in Dirs : out[d] = "failed" THEN 1 ELSE 0

\* "return 0", whatever the outcomes of the directories.
ExitStatus(out) == 0

\* iter_dirs is exhausted: main returns.
Return ==
    /\ pc = "walk"
    /\ todo = <<>>
    /\ pc' = "exit"
    /\ exit_status' = ExitStatus(outcome)
    /\ UNCHANGED << cfg, img2pdf, fs, mtime, now, fsdirs, artifact,
                    tmpdir, run, todo, directory, images, outfile, processed,
                    outcome, prev, touched, touches, calls, faults, tried >>

\* ------------------------------------------------------- environment
\* Between two runs somebody touches an image: its modification time
\* becomes the time of the clock, which has not gone back since it was last
\* read.
Touch ==
    /\ pc = "exit"
    /\ run < MaxRuns
    /\ touches < MaxTouch
    /\ \E f \in ImageFiles(fs), t \in now..MaxClock :
         /\ now' = t
         /\ mtime' = [mtime EXCEPT ![f] = t]
         /\ touched' = IF artifact[resolve_outfile(PathParent(f), cfg)].exists
                       THEN touched \cup { f } ELSE touched
    /\ touches' = touches + 1
    /\ UNCHANGED << cfg, img2pdf, fs, fsdirs, artifact, tmpdir,
                    pc, run, todo, directory, images, outfile, processed,
                    outcome, prev, calls, faults, tried, exit_status >>

Next ==
    \/ Main
    \/ ProcessDirectory
    \/ PreparePages
    \/ WritePdf
    \/ Return
    \/ Touch

Spec == Init /\ [][Next]_vars

\* ============================================================ properties
\* The source images of a sequence of pages.
SrcOf(pages) == [i \in 1..Len(pages) |-> pages[i].src]

\* The directories with at least one eligible image.
ImageDirs == { d \in Dirs : ImagesOf(d) # {} }

\* The artifact of a directory.
ArtifactOf(d) == artifact[resolve_outfile(d, cfg)]

C1_Settled ==
    /\ run >= 2
    /\ pc # "exit"
    /\ touches = 0
    /\ \A d \in ImageDirs : prev[d] \in { "built", "skip" }
    /\ \A d \in ImageDirs : outcome[d] \in { "pending", "skip" }
    /\ \A d \in ImageDirs :
           \A f \in ImagesOf(d) : mtime[f] <= ArtifactOf(d).mtime

C3_FailureIsolation ==
    pc = "exit" =>
        \A d \in Dirs :
            /\ outcome[d] \in { "empty", "skip", "built", "failed" }
            /\ (outcome[d] # "failed" /\ ImagesOf(d) # {})
                   => outcome[d] \in { "skip", "built" }
            /\ outcome[d] = "built" => ArtifactOf(d).exists

\* The root failed and a directory below it was still built in the same run.
C3_Witness ==
    /\ pc = "exit"
    /\ outcome[RootDir] = "failed"
    /\ outcome[DirTrip] = "built"
    /\ ArtifactOf(DirTrip).complete

\* ------------------------------------------------------------------- C4
\* Whether the sequence of source images is the directory's eligible images,
\* each once, in ascending order of file name.
IsPageOrder(srcs, d) ==
    /\ LET imgs == ImagesOf(d)
       IN  /\ Len(srcs) = Cardinality(imgs)
           /\ { srcs[i] : i \in 1..Len(srcs) } = imgs
    /\ \A i, j \in 1..Len(srcs) :
           i < j => StrLess(PathName(srcs[i]), PathName(srcs[j]))

\* C4: the pages handed to write_pdf_from_images, and the pages of the
\* artifact either strategy writes, are the directory's eligible images in
\* ascending order of file name, the i-th staged under the index i - 1,
\* whatever the order of the listing.
C4_PageOrdering ==
    /\ pc = "assemble" =>
           /\ IsPageOrder([i \in 1..Len(processed) |->
                              PageAt(tmpdir, processed[i]).src], directory)
           /\ \A i \in 1..Len(processed) : processed[i] = PageName(i - 1)
    /\ (pc = "walk" /\ directory \in Dirs /\ outcome[directory] = "built")
           => IsPageOrder(SrcOf(artifact[outfile].pages), directory)

\* The listing b.png, a.jpg, c.gif has given the pages a.jpg, b.png, c.gif.
C4_Witness ==
    /\ pc = "walk"
    /\ directory = DirTrip
    /\ outcome[DirTrip] = "built"
    /\ fs[DirTrip] = << f_b_png, f_a_jpg, f_c_gif >>
    /\ SrcOf(artifact[outfile].pages)
           = << Append(DirTrip, f_a_jpg), Append(DirTrip, f_b_png),
                Append(DirTrip, f_c_gif) >>

\* ------------------------------------------------------------------- C5
\* The segments joined with "_", from the left.
RECURSIVE Underscored(_)
Underscored(segs) ==
    IF Len(segs) = 1 THEN segs[1]
    ELSE Underscored(SubSeq(segs, 1, Len(segs) - 1))
             \o << "_" >> \o segs[Len(segs)]

\* The artifact path the claim gives a directory at or under the root.
ClaimedOutfile(d) ==
    IF cfg.out_root # None THEN
        Append(cfg.out_root,
               (IF d = cfg.root THEN cfg.root[Len(cfg.root)]
                ELSE Underscored(SubSeq(d, Len(cfg.root) + 1, Len(d))))
                   \o << ".", "p", "d", "f" >>)
    ELSE Append(d, d[Len(d)] \o << ".", "p", "d", "f" >>)

\* C5: resolve_outfile gives every directory at or under the root the path
\* out_root/<segments below the root joined with "_">.pdf (the root's own name
\* for the root) when an output root is configured and D/<name of D>.pdf when
\* not: /pdfs/2020_trip.pdf and /photos/2020/trip/trip.pdf for
\* /photos/2020/trip; the outfile of process_directory is that path.  The
\* Configuration never changes, so the paths of all directories are compared
\* before the first run and the outfile of process_directory in every state.
C5_OutputPath ==
    /\ pc = "idle" =>
           /\ \A d \in Dirs : resolve_outfile(d, cfg) = ClaimedOutfile(d)
           /\ resolve_outfile(DirTrip, cfg) =
                  IF cfg.out_root # None
                  THEN << n_pdfs, n_2020_trip \o << ".", "p", "d", "f" >> >>
                  ELSE << n_photos, n_2020, n_trip,
                          n_trip \o << ".", "p", "d", "f" >> >>
    /\ (directory \in Dirs /\ outcome[directory] \in { "stale", "skip", "built" })
           => outfile = ClaimedOutfile(directory)

\* process_directory has resolved /pdfs/2020_trip.pdf for /photos/2020/trip.
C5_Witness ==
    /\ pc = "prepare"
    /\ directory = DirTrip
    /\ cfg.out_root = OutRootDir
    /\ outfile = << n_pdfs, n_2020_trip \o DotPdf >>

\* ------------------------------------------------------------------- C6
\* C6 as claimed: after a run in which no directory failed, every directory
\* with images has its own artifact, whose pages are that directory's
\* images, and no two of them share an artifact path.
C6_OnePdfPerDirectory ==
    (pc = "exit" /\ \A d \in Dirs : outcome[d] # "failed") =>
        /\ \A d \in ImageDirs :
               /\ ArtifactOf(d).complete
               /\ { ArtifactOf(d).pages[i].src :
                       i \in 1..Len(ArtifactOf(d).pages) } = ImagesOf(d)
        /\ \A d, e \in ImageDirs :
               d # e => resolve_outfile(d, cfg) # resolve_outfile(e, cfg)

\* ------------------------------------------------------------------- C7
\* C7 as claimed: whenever control is back in the walker, the file at every
\* artifact path is absent or a complete PDF.
C7_ArtifactsComplete ==
    pc \in { "walk", "exit" } =>
        \A p \in ArtifactPaths : artifact[p].exists => artifact[p].complete

\* ------------------------------------------------------------------- C8
\* C8 as claimed: an artifact just written is at least as new as every image
\* it was made from, whatever modification times the images carry.
C8_ArtifactNewerThanInputs ==
    (pc = "walk" /\ directory \in Dirs /\ outcome[directory] = "built") =>
        \A i \in 1..Len(images) : artifact[outfile].mtime >= mtime[images[i]]

\* C8, amended: an artifact just written carries the time of the clock at
\* the write and so is at least as new as every image it was made from whose
\* modification time is not later than the moment of the write.
C8_ArtifactNewerThanPastInputs ==
    (pc = "walk" /\ directory \in Dirs /\ outcome[directory] = "built") =>
        \A i \in 1..Len(images) :
            mtime[images[i]] <= now
                => artifact[outfile].mtime >= mtime[images[i]]

\* An artifact rebuilt from an image that was touched after the first build.
C8_Witness ==
    /\ pc = "walk"
    /\ directory \in Dirs
    /\ outcome[directory] = "built"
    /\ run >= 2
    /\ \E i \in 1..Len(images) :
           mtime[images[i]] > 1 /\ mtime[images[i]] <= artifact[outfile].mtime

\* ------------------------------------------------------------------- C9
\* C9: when the primary strategy is unavailable or raises and the fallback
\* succeeds, the artifact is a complete PDF with as many pages, of the same
\* images in the same order, as the primary strategy makes of the same list.
C9_FallbackSamePages ==
    [][(pc = "assemble" /\ "Pillow" \in calls' /\ outcome'[directory] = "built")
          => /\ artifact'[outfile].complete
             /\ Len(artifact'[outfile].pages) = Len(processed)
             /\ SrcOf(artifact'[outfile].pages)
                    = SrcOf(PrimaryPages(tmpdir, processed))]_vars

\* The fallback has written an artifact of several pages after the primary
\* strategy raised.
C9_Witness ==
    /\ pc = "walk"
    /\ directory \in Dirs
    /\ calls \cap { "img2pdf", "Pillow" } = { "img2pdf", "Pillow" }
    /\ outcome[directory] = "built"
    /\ artifact[outfile].complete
    /\ Len(artifact[outfile].pages) >= 2

\* ------------------------------------------------------------------ C10
\* C10: process_directory on a directory without eligible images calls
\* find_images and nothing else, and leaves the file system as it was: no
\* artifact, no staging area, no directory created.
C10_ZeroImagesInert ==
    [][(pc = "walk" /\ todo # <<>> /\ ImagesOf(Head(todo)) = {})
          => /\ calls' = { "find_images" }
             /\ artifact' = artifact
             /\ tmpdir' = tmpdir
             /\ fsdirs' = fsdirs
             /\ mtime' = mtime
             /\ fs' = fs
             /\ pc' = "walk"
             /\ outcome'[Head(todo)] = "empty"]_vars

\* process_directory has returned from /photos/2020, which holds n.txt only.
C10_Witness ==
    /\ pc = "walk"
    /\ directory = Dir2020
    /\ outcome[Dir2020] = "empty"
    /\ calls = { "find_images" }
    /\ \A p \in ArtifactPaths : ~artifact[p].exists

C12_SourcesReadOnly ==
    [][touches' = touches =>
          /\ fs' = fs
          /\ mtime' = mtime
          /\ \A p \in ArtifactPaths :
                 artifact'[p] # artifact[p] =>
                     /\ p = outfile
                     /\ Suffix(PathName(p)) = << ".", "p", "d", "f" >>
          /\ \A d \in fsdirs' \ fsdirs :
                 \/ cfg.out_root # None /\ IsRelativeTo(cfg.out_root, d)
                 \/ IsRelativeTo(PathParent(outfile'), d)
          /\ pc = "idle" =>
                 \A d \in Dirs :
                     /\ resolve_outfile(d, cfg) \notin Files(fs)
                     /\ ~IsImage(resolve_outfile(d, cfg))]_vars

\* An artifact has been written in place, beside the images it was made of,
\* and a rebuild of another directory has failed in the same run.
C12_Witness ==
    /\ pc = "exit"
    /\ cfg.out_root = None
    /\ \E d \in ImageDirs :
           /\ outcome[d] = "built"
           /\ PathParent(resolve_outfile(d, cfg)) = d
           /\ ArtifactOf(d).complete
    /\ \E d \in ImageDirs : outcome[d] = "failed"

\* ------------------------------------------------------------------ C13
\* C13: for a directory with images, is_up_to_date answers true exactly when
\* the artifact exists and its modification time is at least that of every
\* image, equality included; it answers false when the artifact does not
\* exist; and asking changes no file, time or listing.
C13_FreshnessPolicy ==
    [][(pc = "walk" /\ todo # <<>> /\ ImagesOf(Head(todo)) # {}) =>
          LET d == Head(todo)
              a == ArtifactOf(d)
              fresh == a.exists /\ \A f \in ImagesOf(d) : a.mtime >= mtime[f]
          IN  /\ (outcome'[d] = "skip") <=> fresh
              /\ (outcome'[d] = "stale") <=> ~fresh
              /\ ~a.exists => outcome'[d] = "stale"
              /\ "is_up_to_date" \in calls'
              /\ artifact' = artifact
              /\ mtime' = mtime
              /\ fs' = fs]_vars

\* A directory was found up to date whose newest image is exactly as old as
\* its artifact.
C13_Witness ==
    /\ pc = "walk"
    /\ directory \in Dirs
    /\ outcome[directory] = "skip"
    /\ artifact[outfile].exists
    /\ NewestMtime(images, mtime) = artifact[outfile].mtime

\* ------------------------------------------------------------------ C14
\* C14: when prepare_page fails on an image of a stale directory, the
\* rebuild of the directory ends without write_pdf_from_images being called
\* and without any artifact path being written: an artifact the directory
\* had keeps its content and modification time and none appears where there
\* was none; and write_pdf_from_images is only ever reached with every image
\* of the directory normalized, one page each, in the staging area.
C14_DecodeFailureKeepsArtifact ==
    [][/\ (pc = "prepare" /\ outcome'[directory] = "failed") =>
              /\ artifact' = artifact
              /\ "write_pdf_from_images" \notin calls'
              /\ calls' \cap { "img2pdf", "Pillow" } = {}
              /\ pc' = "walk"
       /\ pc' = "assemble" =>
              /\ Len(processed') = Len(images')
              /\ \A i \in 1..Len(images') :
                     \E f \in tmpdir'.files :
                         /\ f.name = processed'[i]
                         /\ f.page.src = images'[i]
              /\ Cardinality(tmpdir'.files) = Len(images')
              /\ artifact' = artifact]_vars

\* In a later run the rebuild of a directory failed in prepare_page and the
\* complete artifact of the run before is still there, older than an image.
C14_Witness ==
    /\ run >= 2
    /\ pc = "walk"
    /\ directory \in Dirs
    /\ outcome[directory] = "failed"
    /\ "write_pdf_from_images" \notin calls
    /\ artifact[outfile].complete
    /\ \E i \in 1..Len(images) : mtime[images[i]] > artifact[outfile].mtime

\* ------------------------------------------------------------------ C15
\* C15: a staging area exists only while process_directory is rebuilding a
\* directory that has images and was found stale, and it holds nothing but
\* pages of that directory; whenever control is with the walker, after a
\* build, after a failure of prepare_page and after a failure of the
\* strategies, there is no staging area and no page left.
C15_StagingLifecycle ==
    /\ tmpdir.exists =>
           LET imgs == ImagesOf(directory)
           IN  /\ pc \in { "prepare", "assemble" }
               /\ imgs # {}
               /\ outcome[directory] = "stale"
               /\ "is_up_to_date" \in calls
               /\ \A f \in tmpdir.files : f.page.src \in imgs
    /\ pc \in { "idle", "walk", "exit" } => tmpdir = NoTmp
    /\ pc \in { "prepare", "assemble" } => tmpdir.exists

\* Control is back with the walker after both strategies failed on staged
\* pages, and the staging area is gone.
C15_Witness ==
    /\ pc = "walk"
    /\ directory \in Dirs
    /\ outcome[directory] = "failed"
    /\ { "img2pdf", "Pillow", "prepare_page" } \subseteq calls
    /\ ~tmpdir.exists
    /\ tmpdir.files = {}

\* ------------------------------------------------------------------ C16
\* Whether a path lies at or under another.
IsAtOrUnder(p, top) == Len(top) <= Len(p) /\ SubSeq(p, 1, Len(top)) = top

\* Whether a sequence of directories is the tree in depth-first order: the
\* root first, every directory once, a directory before those below it, a
\* directory's subdirectories in ascending order of name, and the whole
\* subtree of one before the next.
IsDepthFirstOrder(o) ==
    /\ o[1] = cfg.root
    /\ Len(o) = Cardinality(Dirs)
    /\ { o[i] : i \in 1..Len(o) } = Dirs
    /\ \A i, j \in 1..Len(o) :
           /\ (o[i] # o[j] /\ IsAtOrUnder(o[j], o[i])) => i < j
           /\ (/\ PathParent(o[i]) = PathParent(o[j])
               /\ StrLess(PathName(o[i]), PathName(o[j]))) => i < j
    /\ \A i, j, k \in 1..Len(o) :
           (i < j /\ j < k /\ IsAtOrUnder(o[k], o[i])) => IsAtOrUnder(o[j], o[i])

\* C16: iter_dirs yields the root and every directory below it once, depth
\* first, a directory before its descendants, siblings in ascending order of
\* name, a sibling's subtree before the next sibling; and in every run the
\* directories are processed in that order, each one having ended (empty,
\* skipped, built or failed) before the next one is taken, the ones not yet
\* taken untouched.  The listings never change, so what iter_dirs yields is
\* compared before the first run: /photos, /photos/2020, /photos/2020/trip,
\* /photos/2020_trip.
C16_TraversalOrder ==
    LET o == << RootDir, Dir2020, DirTrip, DirFlat >>
        k == Len(o) - Len(todo)
        final == { "empty", "skip", "built", "failed" }
    IN  /\ pc = "idle" =>
               /\ iter_dirs(fs, cfg.root) = o
               /\ IsDepthFirstOrder(iter_dirs(fs, cfg.root))
        /\ pc \in { "walk", "prepare", "assemble" } =>
               /\ todo = SubSeq(o, k + 1, Len(o))
               /\ \A i \in 1..Len(o) :
                      /\ i < k => outcome[o[i]] \in final
                      /\ i > k => outcome[o[i]] = "pending"
               /\ k >= 1 =>
                      /\ directory = o[k]
                      /\ pc = "walk" => outcome[o[k]] \in final
                      /\ pc # "walk" => outcome[o[k]] = "stale"

\* /photos/2020/trip has been built before /photos/2020_trip is taken,
\* though the root lists 2020_trip before 2020.
C16_Witness ==
    /\ pc = "walk"
    /\ fs[RootDir][2] = n_2020_trip
    /\ fs[RootDir][3] = n_2020
    /\ directory = DirTrip
    /\ outcome[Dir2020] = "empty"
    /\ outcome[DirTrip] = "built"
    /\ outcome[DirFlat] = "pending"
    /\ todo = << DirFlat >>

\* ------------------------------------------------------------------ C17
\* C17: write_pdf_from_images tries the primary strategy first whenever
\* img2pdf is available and never when it is not; it tries the fallback
\* exactly when the primary strategy is unavailable or has raised, and after
\* it; each strategy is tried at most once; when the primary strategy alone
\* fails the directory is built by the fallback; and the directory ends
\* failed exactly when the fallback raised.
C17_StrategySelection ==
    [][pc = "assemble" =>
          LET failed == outcome'[directory] = "failed"
          IN  /\ img2pdf =>
                     tried' \in { << "img2pdf" >>,
                                  << "img2pdf", "img2pdf_raised", "Pillow" >>,
                                  << "img2pdf", "img2pdf_raised", "Pillow",
                                     "Pillow_raised" >> }
              /\ ~img2pdf =>
                     tried' \in { << "Pillow" >>, << "Pillow", "Pillow_raised" >> }
              /\ failed <=> tried'[Len(tried')] = "Pillow_raised"
              /\ ~failed <=> outcome'[directory] = "built"
              /\ ~failed => /\ artifact'[outfile].complete
                            /\ Len(artifact'[outfile].pages) = Len(processed)
              /\ failed => todo' = todo]_vars

\* The primary strategy raised, the fallback built the directory, and the
\* walker goes on.
C17_Witness ==
    /\ pc = "walk"
    /\ directory \in Dirs
    /\ tried = << "img2pdf", "img2pdf_raised", "Pillow" >>
    /\ outcome[directory] = "built"
    /\ artifact[outfile].complete

\* ------------------------------------------------------------------ C18
\* C18 as claimed: prepare_page converts a page to RGB exactly when the mode
\* of the source is neither "L" nor "RGB": the page of a grayscale source
\* has the mode "L", the page of an RGB source the mode "RGB", and every
\* page is "L" or "RGB".
C18_ModeCoercion ==
    pc = "assemble" =>
        \A f \in tmpdir.files :
            /\ f.page.mode \in { "L", "RGB" }
            /\ (f.page.mode # SourceMode(f.page.src))
                   <=> SourceMode(f.page.src) \notin { "L", "RGB" }
            /\ SourceMode(f.page.src) = "L" => f.page.mode = "L"
            /\ SourceMode(f.page.src) = "RGB" => f.page.mode = "RGB"

\* ------------------------------------------------------------------ C19
\* C19 as claimed: a directory whose rebuild failed in the run before is
\* found stale when the next run visits it, and its rebuild starts.
C19_FailedIsRetried ==
    [][(pc = "walk" /\ todo # <<>> /\ run >= 2
            /\ prev[Head(todo)] = "failed")
          => (outcome'[Head(todo)] = "stale" /\ pc' = "prepare")]_vars

====
